---- MODULE Spec2Model ----
(***************************************************************************)
(* Model of mfile/magic.py: Magic sessions, each a wrapper over one        *)
(* libmagic cookie, the threads that call their methods, and their         *)
(* finaliser.                                                              *)
(***************************************************************************)
EXTENDS Integers, Sequences, FiniteSets, TLC

\* ------------------------------------------------------------------ bounds
NumThreads == 2
MaxInt == 1
MaxCalls == 3
NumSessions == 2

Threads == 1..NumThreads
Sessions == 1..NumSessions
Ints == 0..MaxInt

\* ---------------------------------------------------------- Python values
PyNone == [ty |-> "none", v |-> <<>>]
\* A Python int has no width: it is kept as its digits in base 2^16, the
\* least significant first (a negative int, of which only the sentinel -1
\* occurs, as one negative digit).
PyInt(n) ==
    [ty |-> "int", v |-> IF n < 2^16 THEN <<n>> ELSE <<n % 2^16, n \div 2^16>>]

\* 2^32, an int wider than a C int.
Wide == [ty |-> "int", v |-> <<0, 0, 1>>]

\* ctypes.c_int: the low 32 bits of the int, as a signed number, with no
\* overflow check.
c_int(x) ==
    LET d1 == x.v[1]
        d2 == IF Len(x.v) >= 2 THEN x.v[2] ELSE 0
    IN IF d2 < 2^15 THEN d1 + 2^16 * d2 ELSE d1 + 2^16 * (d2 - 2^16)
PyBytes(s) == [ty |-> "bytes", v |-> s]
PyStr(s) == [ty |-> "str", v |-> s]

\* str.encode('utf-8', 'surrogateescape') on a sequence of code points:
\* ASCII is one byte, U+0080..U+07FF two bytes, a lone surrogate
\* U+DC80..U+DCFF is the byte it escapes.
RECURSIVE encode_utf8_surrogateescape(_)
encode_utf8_surrogateescape(s) ==
    IF s = <<>> THEN <<>>
    ELSE LET c == Head(s)
             b == IF c < 128 THEN <<c>>
                  ELSE IF c >= 56448 /\ c <= 56575 THEN <<c - 56320>>
                  ELSE <<192 + (c \div 64), 128 + (c % 64)>>
         IN b \o encode_utf8_surrogateescape(Tail(s))

coerce_filename_empty(filename) ==
    IF filename.ty = "none" THEN PyBytes(<<>>)
    ELSE IF filename.ty = "str" THEN PyBytes(encode_utf8_surrogateescape(filename.v))
    ELSE filename

coerce_filename(filename) ==
    IF filename.ty = "none" THEN PyNone
    ELSE IF filename.ty = "str" THEN PyBytes(encode_utf8_surrogateescape(filename.v))
    ELSE filename

\* ------------------------------------------------------- values of cookie
Unset == -1
Null == 0
Handle == 1

\* ------------------------------------------------------------- operations
\* File and database names the callers pass.
FileNames == {PyStr(<<97>>), PyBytes(<<233>>)}
DbNames == {PyNone, PyStr(<<>>)}
Buffers == {PyBytes(<<37>>), PyStr(<<37>>)}

Descriptors == {0, 1}
FlagArgs == {PyInt(f) : f \in Ints} \cup {Wide}
Op(name, a, b) == [name |-> name, a |-> a, b |-> b]
NoOp == Op("none", PyNone, PyNone)

OpCalls ==
    {Op("from_descriptor", PyInt(fd), PyNone) : fd \in Descriptors}
    \cup {Op("from_file", f, PyNone) : f \in FileNames}
    \cup {Op("from_buffer", buf, PyNone) : buf \in Buffers}
    \cup {Op("get_flags", PyNone, PyNone)}
    \cup {Op("set_flags", f, PyNone) : f \in FlagArgs}
    \cup {Op(n, d, PyNone) : n \in {"check", "compile", "list", "load"}, d \in DbNames}
    \cup {Op("get_param", PyInt(0), PyNone)}
    \cup {Op("set_param", PyInt(0), PyInt(v)) : v \in Ints}

\* ------------------------------------------------- libmagic, per cookie
\* The native session behind a cookie: whether it is open, its flag
\* bitmask, its numeric parameters, its last error and the buffer that
\* holds the text of its last detection result.
NoErr == [msg |-> <<>>, code |-> 0]
NullErr == [msg |-> <<0>>, code |-> 22]
NoSession == [state |-> "none", flags |-> 0, param |-> 0,
              err |-> NoErr, buf |-> <<>>]

FnNames == <<"magic_descriptor", "magic_file", "magic_buffer", "magic_getflags",
             "magic_setflags", "magic_check", "magic_compile", "magic_list",
             "magic_load", "magic_getparam", "magic_setparam">>
FnNum(fn) == CHOOSE i \in 1..Len(FnNames) : FnNames[i] = fn
FnErr(fn) == [msg |-> <<FnNum(fn)>>, code |-> FnNum(fn)]

magic_open(flags) ==
    [state |-> "open", flags |-> flags, param |-> 0,
     err |-> NoErr, buf |-> <<>>]

\* What a detection call answers for its input: the kind of input and
\* the bytes (or descriptor) it was given.
Detect(fn, a) ==
    IF fn = "magic_descriptor" THEN <<2>> \o a.v
    ELSE IF fn = "magic_file" THEN <<1>> \o a.v
    ELSE <<3>> \o a.v

\* The failure sentinel of each native function.
Sentinel(fn) ==
    IF fn \in {"magic_descriptor", "magic_file", "magic_buffer"} THEN PyNone
    ELSE PyInt(-1)

\* One native call fn(cookie, a, b) on an open session m; ok is whether
\* the library succeeds.  A failing call leaves its error in the session;
\* a detection or database call that succeeds clears it.  Yields the
\* value returned, the value written through the out-pointer
\* (magic_getparam) and the session afterwards.
NativeCall(m, fn, a, b, ok) ==
    IF fn = "magic_getflags"
    THEN [ret |-> PyInt(m.flags), val |-> PyNone, ms |-> m]
    ELSE IF ~ok
    THEN [ret |-> Sentinel(fn), val |-> PyNone, ms |-> [m EXCEPT !.err = FnErr(fn)]]
    ELSE IF fn \in {"magic_descriptor", "magic_file", "magic_buffer"}
    THEN [ret |-> PyBytes(Detect(fn, a)), val |-> PyNone,
          ms |-> [m EXCEPT !.buf = Detect(fn, a), !.err = NoErr]]
    ELSE IF fn = "magic_setflags"
    THEN [ret |-> PyInt(0), val |-> PyNone, ms |-> [m EXCEPT !.flags = c_int(a)]]
    ELSE IF fn = "magic_getparam"
    THEN [ret |-> PyInt(0), val |-> PyInt(m.param), ms |-> m]
    ELSE IF fn = "magic_setparam"
    THEN [ret |-> PyInt(0), val |-> PyNone, ms |-> [m EXCEPT !.param = b.v[1]]]
    ELSE [ret |-> PyInt(0), val |-> PyNone, ms |-> [m EXCEPT !.err = NoErr]]

\* The same call on a null cookie: libmagic answers the sentinel and
\* touches nothing.
NativeCallNull(m, fn) ==
    [ret |-> IF fn = "magic_getflags" THEN PyInt(-1) ELSE Sentinel(fn),
     val |-> PyNone, ms |-> m]

\* Every answer a call can give; a call on a released cookie reads freed
\* memory and may give any of them.
NativeAnswers(m, fn, a, b) ==
    {NativeCall(m, fn, a, b, ok) : ok \in BOOLEAN} \cup {NativeCallNull(m, fn)}

magic_error(m, handle) ==
    IF handle # Handle THEN PyBytes(NullErr.msg)
    ELSE IF m.err = NoErr THEN PyNone ELSE PyBytes(m.err.msg)

magic_errno(m, handle) ==
    IF handle # Handle THEN PyInt(NullErr.code) ELSE PyInt(m.err.code)

\* -------------------------------------------------------------- MagicDLL
MagicDLLDefinition(restype, argtypes) == [restype |-> restype, argtypes |-> argtypes]

\* MagicDLL._methods: the return and argument types of each native function.
methods ==
    [item \in {"magic_open", "magic_close", "magic_error", "magic_errno",
               "magic_descriptor", "magic_file", "magic_buffer", "magic_getflags",
               "magic_setflags", "magic_check", "magic_compile", "magic_list",
               "magic_load", "magic_load_buffers", "magic_getparam",
               "magic_setparam", "magic_version"} |->
        CASE item = "magic_open" -> MagicDLLDefinition("magic_t", <<"c_int">>)
          [] item = "magic_close" -> MagicDLLDefinition("None", <<"magic_t">>)
          [] item = "magic_error" -> MagicDLLDefinition("c_char_p", <<"magic_t">>)
          [] item = "magic_errno" -> MagicDLLDefinition("c_int", <<"magic_t">>)
          [] item = "magic_descriptor" -> MagicDLLDefinition("c_char_p", <<"magic_t", "c_int">>)
          [] item = "magic_file" -> MagicDLLDefinition("c_char_p", <<"magic_t", "c_char_p">>)
          [] item = "magic_buffer" ->
                MagicDLLDefinition("c_char_p", <<"magic_t", "c_void_p", "c_size_t">>)
          [] item = "magic_getflags" -> MagicDLLDefinition("c_int", <<"magic_t">>)
          [] item = "magic_setflags" -> MagicDLLDefinition("c_int", <<"magic_t", "c_int">>)
          [] item \in {"magic_check", "magic_compile", "magic_list", "magic_load"} ->
                MagicDLLDefinition("c_int", <<"magic_t", "c_char_p">>)
          [] item = "magic_load_buffers" ->
                MagicDLLDefinition("c_int", <<"magic_t", "POINTER(c_void_p)",
                                             "POINTER(c_size_t)", "c_size_t">>)
          [] item \in {"magic_getparam", "magic_setparam"} ->
                MagicDLLDefinition("c_int", <<"magic_t", "c_int", "POINTER(c_size_t)">>)
          [] item = "magic_version" -> MagicDLLDefinition("c_int", <<>>)]

\* Attribute names asked of a MagicDLL: those of the table, a magic_ name
\* that the table lacks, and names without the magic_ prefix.
Items == DOMAIN methods \cup {"magic_getpath", "libmagic_version", "close"}
startswith_magic(item) == item \in DOMAIN methods \cup {"magic_getpath"}

\* What ctypes.cdll.LoadLibrary returned: NoDll while self.dll is not
\* assigned; "libmagic" a libmagic with every function of the table;
\* "libmagic_old" a libmagic from before magic_getparam, magic_setparam
\* and magic_load_buffers; "program" the handle of the running program,
\* which dlopen gives for the name None and which has no magic_ symbol.
NoDll == "unset"
Libraries == {"libmagic", "libmagic_old", "program"}

\* hasattr(self.libmagic, item)
hasattr(library, item) ==
    CASE library = "libmagic" -> item \in DOMAIN methods \cup {"magic_getpath"}
      [] library = "libmagic_old" ->
            item \in (DOMAIN methods \cup {"magic_getpath"})
                        \ {"magic_getparam", "magic_setparam", "magic_load_buffers"}
      [] OTHER -> FALSE

\* MagicDLL.__getattr__: the exception it raises, or the library's
\* function with the restype and the argtypes of the table.
MagicDLL_getattr_export_first(library, item) ==
    IF ~hasattr(library, item)
    THEN [kind |-> "NotImplementedError", restype |-> "", argtypes |-> <<>>]
    ELSE IF ~startswith_magic(item) \/ item \notin DOMAIN methods
    THEN [kind |-> "AttributeError", restype |-> "", argtypes |-> <<>>]
    ELSE [kind |-> "callable", restype |-> methods[item].restype,
          argtypes |-> methods[item].argtypes]

MagicDLL_getattr(library, item) ==
    IF ~startswith_magic(item) \/ item \notin DOMAIN methods
    THEN [kind |-> "AttributeError", restype |-> "", argtypes |-> <<>>]
    ELSE IF ~hasattr(library, item)
    THEN [kind |-> "NotImplementedError", restype |-> "", argtypes |-> <<>>]
    ELSE [kind |-> "callable", restype |-> methods[item].restype,
          argtypes |-> methods[item].argtypes]

\* The argument a of a method as the function's argtypes hand it to the
\* library: an int that goes to a c_int parameter is cut to a C int.
argtypes(library, item, a) ==
    IF a.ty = "int" /\ "c_int" \in
            {MagicDLL_getattr(library, item).argtypes[i] :
                i \in 1..Len(MagicDLL_getattr(library, item).argtypes)}
    THEN PyInt(c_int(a))
    ELSE a

\* The libmagic the machine has: one of the two libraries, none that
\* find_library can locate ("absent"), or one that cannot be loaded
\* ("broken").
Installed == {"libmagic", "libmagic_old", "absent", "broken"}

\* MagicDLL(): find_library("magic") and LoadLibrary of what it found.
\* find_library gives None for a library it cannot locate, and
\* LoadLibrary(None) gives the running program where the loader is dlopen
\* and raises TypeError where it is LoadLibrary of Windows; a library
\* that cannot be loaded raises OSError.
MagicDLL(installed) ==
    CASE installed \in {"libmagic", "libmagic_old"} ->
            {[kind |-> "return", dll |-> installed]}
      [] installed = "absent" ->
            {[kind |-> "return", dll |-> "program"], [kind |-> "TypeError", dll |-> NoDll]}
      [] installed = "broken" -> {[kind |-> "OSError", dll |-> NoDll]}

\* --------------------------------------------------------------- state
VARIABLES
    lib,        \* the libmagic installed on the machine
    dll,        \* self.dll: NoDll before it is assigned, else the library loaded
    flags,      \* self.flags
    cookie,     \* self.cookie: Unset, Null (None) or Handle
    lock,       \* self.lock: -1 before it is created, 0 free, else its holder
    ms,         \* the native session behind the Handle of each Magic object
    phase,      \* "none" not created, "new" in __init__, "live", "failed"
                \* (__init__ raised), "dead"
    pc,         \* where each thread is
    on,         \* the Magic object each thread is working on, 0 if none
    op,         \* the method each thread is in, with its arguments
    h,          \* the cookie each thread passed to the native call in progress
    out,        \* how the call each thread is in ends
    kept,       \* the from_file result each thread holds until it goes on to
                \* something else, with its file
    calls,      \* how many calls the threads have made
    ctorArgs,   \* the arguments of Magic(flags, database_filename)
    ctorLog,    \* the native calls made while __init__ runs
    closeCount, \* how often magic_close ran on Handle
    lastNative, \* the thread that made the latest native call on the cookie,
                \* 0 once a method has ended since
    failure,    \* the native error state right after the failing call of the
                \* method each thread is in
    expect,     \* the bitmask each thread's accepted set_flags stored, if any
    before,     \* self.flags when each thread's method took the lock
    invoked     \* how often the method each thread is in has called its
                \* native function

vars == <<lib, dll, flags, cookie, lock, ms, phase, pc, on, op, h, out, kept, calls,
          ctorArgs, ctorLog, closeCount, lastNative, failure, expect, before,
          invoked>>

NoOut == [kind |-> "none", exc |-> "", val |-> PyNone, errno |-> PyNone]
Return(v) == [kind |-> "return", exc |-> "", val |-> v, errno |-> PyNone]
Raise(e, message, errno) == [kind |-> "raise", exc |-> e, val |-> message, errno |-> errno]
NoKept == [s |-> 0, file |-> PyNone, val |-> PyNone]
NoArgs == [flags |-> PyInt(0), database_filename |-> PyNone]
CtorArgs ==
    {[flags |-> f, database_filename |-> d] :
        f \in {PyInt(i) : i \in Ints} \cup {PyStr(<<>>)}, d \in DbNames}

\* One Magic object is being constructed by thread 1 on a machine with
\* the given libmagic: with any arguments where there is a libmagic with
\* every function, as Magic() elsewhere.
Start(installed) ==
    /\ lib = installed
    /\ dll = [s \in Sessions |-> NoDll]
    /\ flags = [s \in Sessions |-> PyNone]
    /\ cookie = [s \in Sessions |-> Unset]
    /\ lock = [s \in Sessions |-> -1]
    /\ ms = [s \in Sessions |-> NoSession]
    /\ phase = [s \in Sessions |-> IF s = 1 THEN "new" ELSE "none"]
    /\ pc = [t \in Threads |-> IF t = 1 THEN "ctor" ELSE "idle"]
    /\ on = [t \in Threads |-> IF t = 1 THEN 1 ELSE 0]
    /\ op = [t \in Threads |-> NoOp]
    /\ h = [t \in Threads |-> Unset]
    /\ out = [t \in Threads |-> NoOut]
    /\ kept = [t \in Threads |-> NoKept]
    /\ calls = 0
    /\ \E a \in IF lib = "libmagic" THEN CtorArgs ELSE {NoArgs} :
          ctorArgs = [s \in Sessions |-> IF s = 1 THEN a ELSE NoArgs]
    /\ ctorLog = [s \in Sessions |-> <<>>]
    /\ closeCount = [s \in Sessions |-> 0]
    /\ lastNative = [s \in Sessions |-> 0]
    /\ failure = [t \in Threads |-> NoErr]
    /\ expect = [s \in Sessions |-> [t \in Threads |-> PyNone]]
    /\ before = [t \in Threads |-> PyNone]
    /\ invoked = [t \in Threads |-> 0]

\* A machine with a current libmagic, or with none that loads.
Init == \E installed \in Installed \ {"libmagic_old"} : Start(installed)

\* A machine with a libmagic from before magic_getparam.
InitOld == Start("libmagic_old")

\* ------------------------------------------------------ the wrapper
\* The native function a method calls and the arguments it passes.
NativeFn(o) ==
    CASE o.name = "from_descriptor" -> "magic_descriptor"
      [] o.name = "from_file" -> "magic_file"
      [] o.name = "from_buffer" -> "magic_buffer"
      [] o.name = "get_flags" -> "magic_getflags"
      [] o.name = "set_flags" -> "magic_setflags"
      [] o.name = "check" -> "magic_check"
      [] o.name = "compile" -> "magic_compile"
      [] o.name = "list" -> "magic_list"
      [] o.name = "load" -> "magic_load"
      [] o.name = "get_param" -> "magic_getparam"
      [] o.name = "set_param" -> "magic_setparam"

NativeArgDropped(o) ==
    IF o.name \in {"from_file", "check", "compile", "list", "load"}
    THEN coerce_filename(o.a)
    ELSE IF o.name = "set_flags" THEN PyInt(0)
    ELSE o.a

NativeArg(o) ==
    IF o.name \in {"from_file", "check", "compile", "list", "load"}
    THEN coerce_filename(o.a)
    ELSE o.a

\* from_buffer's isinstance test: the call is refused before the lock.
RaisesNever(o) == FALSE

RaisesTypeError(o) == o.name = "from_buffer" /\ o.a.ty # "bytes"

\* error_value of the method's _check_error call.
ErrorValue(o) ==
    IF o.name \in {"from_descriptor", "from_file", "from_buffer"} THEN PyNone
    ELSE PyInt(-1)

\* _check_error: does the result make the method raise?  get_flags
\* returns the native result unchecked.
check_error_default(o, result) ==
    o.name # "get_flags" /\ result = PyNone

check_error(o, result) ==
    o.name # "get_flags" /\ result = ErrorValue(o)

\* restype of the detection functions is c_char_p: ctypes copies the
\* text into a bytes object when the call returns.  A pointer result
\* would instead be read from the session's buffer when it is used.
restype_pointer(ret) ==
    IF ret.ty = "bytes" THEN [ty |-> "ptr", v |-> <<>>] ELSE ret

restype_c_char_p(ret) == ret

Read(value, s) == IF value.ty = "ptr" THEN PyBytes(ms[s].buf) ELSE value

\* What a method returns when its native call did not fail.
ReturnValue(o, ans) ==
    IF o.name \in {"from_descriptor", "from_file", "from_buffer"}
    THEN restype_c_char_p(ans.ret)
    ELSE IF o.name = "get_flags" THEN ans.ret
    ELSE IF o.name = "get_param" THEN ans.val
    ELSE PyNone

\* self.flags after set_flags: assigned only past _check_error.
set_flags_early(o, ans, old) ==
    IF o.name = "set_flags" THEN o.a ELSE old

set_flags_cache(o, ans, old) ==
    IF o.name = "set_flags" /\ ~check_error(o, ans.ret) THEN o.a ELSE old

\* The positions of a method that lie inside its `with self.lock:` block.
InWithUntilCheck(p) == p \in {"native", "release"}

InWith(p) == p \in {"native", "errmsg", "errno", "release"}

\* self.lock is the Lock that the object's own __init__ created.
LockShared(s) == 1

LockOf(s) == s

\* The lock as thread t leaves it at position p: held inside the with
\* block, released when the block is left by return or by exception.
LockAfterNoFinally(s, t, p) ==
    [lock EXCEPT ![LockOf(s)] =
        IF InWith(p) \/ out[t].kind = "raise" THEN t ELSE IF @ = t THEN 0 ELSE @]

LockAfter(s, t, p) ==
    [lock EXCEPT ![LockOf(s)] = IF InWith(p) THEN t ELSE IF @ = t THEN 0 ELSE @]

\* threading.Lock.acquire: blocks until the lock is free.
AcquireAlways(l) == TRUE

Acquirable(l) == l = 0

Logged(s, fn, handle, a) ==
    IF phase[s] = "new"
    THEN [ctorLog EXCEPT ![s] = Append(@, [fn |-> fn, h |-> handle, a |-> a])]
    ELSE ctorLog

\* The constructor raises before its load: nothing refers to the object
\* any more and its finaliser runs.
CtorRaise(t, s, e) ==
    /\ out' = [out EXCEPT ![t] = Raise(e, PyNone, PyNone)]
    /\ phase' = [phase EXCEPT ![s] = "failed"]
    /\ pc' = [pc EXCEPT ![t] = "del"]

\* Magic.__init__, self.dll = MagicDLL(): the library is loaded.
CtorLoad(t) ==
    /\ pc[t] = "ctor"
    /\ LET s == on[t] IN
        \E loaded \in MagicDLL(lib) :
            IF loaded.kind = "return"
            THEN /\ dll' = [dll EXCEPT ![s] = loaded.dll]
                 /\ pc' = [pc EXCEPT ![t] = "open"]
                 /\ UNCHANGED <<out, phase>>
            ELSE /\ CtorRaise(t, s, loaded.kind)
                 /\ UNCHANGED dll
    /\ UNCHANGED <<lib, flags, cookie, lock, ms, on, op, h, kept, calls, ctorArgs,
                   ctorLog, closeCount, lastNative, failure, expect, before, invoked>>

\* Magic.__init__ from there to its call of self.load: the flags are
\* cached, the cookie opened and the lock created.
CtorOpen(t) ==
    /\ pc[t] = "open"
    /\ LET s == on[t]
           fn == MagicDLL_getattr(dll[s], "magic_open")
       IN /\ flags' = [flags EXCEPT ![s] = ctorArgs[s].flags]
          /\ IF fn.kind # "callable"
             THEN /\ CtorRaise(t, s, fn.kind)
                  /\ UNCHANGED <<cookie, ms, lock, ctorLog, op>>
             ELSE IF flags'[s].ty # "int"
             THEN \* ctypes refuses an argument that is no int
                  /\ CtorRaise(t, s, "ArgumentError")
                  /\ UNCHANGED <<cookie, ms, lock, ctorLog, op>>
             ELSE /\ \E opened \in BOOLEAN :
                      /\ cookie' = [cookie EXCEPT ![s] = IF opened THEN Handle ELSE Null]
                      /\ ms' = [ms EXCEPT ![s] =
                            IF opened
                            THEN magic_open(c_int(argtypes(dll[s], "magic_open", flags'[s])))
                            ELSE @]
                  /\ lock' = [lock EXCEPT ![s] = 0]
                  /\ ctorLog' = Logged(s, "magic_open", Unset, flags'[s])
                  /\ op' = [op EXCEPT ![t] =
                               Op("load", ctorArgs[s].database_filename, PyNone)]
                  /\ pc' = [pc EXCEPT ![t] = "called"]
                  /\ UNCHANGED <<out, phase>>
    /\ UNCHANGED <<lib, dll, on, h, kept, calls, ctorArgs, closeCount, lastNative,
                   failure, expect, before, invoked>>

\* A thread calls a method of a live Magic object.  Which method, and
\* with which arguments, shows when the method first acts: in Reject or
\* in Enter.
Call(t, s) ==
    /\ phase[s] = "live"
    /\ pc[t] = "idle"
    /\ calls < MaxCalls
    /\ calls' = calls + 1
    /\ on' = [on EXCEPT ![t] = s]
    /\ pc' = [pc EXCEPT ![t] = "called"]
    /\ kept' = [kept EXCEPT ![t] = NoKept]
    /\ UNCHANGED <<lib, dll, flags, cookie, lock, ms, phase, op, h, out, ctorArgs,
                   ctorLog, closeCount, lastNative, failure, expect, before, invoked>>

\* from_buffer refuses anything but bytes before it takes the lock.
Reject(t, o) ==
    /\ pc[t] = "called"
    /\ op[t] = NoOp
    /\ RaisesTypeError(o)
    /\ op' = [op EXCEPT ![t] = o]
    /\ out' = [out EXCEPT ![t] = Raise("TypeError", PyNone, PyNone)]
    /\ pc' = [pc EXCEPT ![t] = "unwind"]
    /\ UNCHANGED <<lib, dll, flags, cookie, lock, ms, phase, on, h, kept, calls, ctorArgs,
                   ctorLog, closeCount, lastNative, failure, expect, before, invoked>>

\* `with self.lock:` is entered, the native function is asked of self.dll
\* and called with self.cookie as it is now.  A function that the library
\* lacks ends the method with the exception of MagicDLL.__getattr__.
Enter(t, o) ==
    /\ pc[t] = "called"
    /\ op[t] \in {NoOp, o}
    /\ ~RaisesTypeError(o)
    /\ LET s == on[t]
           fn == MagicDLL_getattr(dll[s], NativeFn(o))
       IN /\ Acquirable(lock[LockOf(s)])
          /\ before' = [before EXCEPT ![t] = flags[s]]
          /\ IF fn.kind = "callable"
             THEN /\ lock' = LockAfter(s, t, "native")
                  /\ h' = [h EXCEPT ![t] = cookie[s]]
                  /\ ctorLog' = Logged(s, NativeFn(o), cookie[s], NativeArg(o))
                  /\ invoked' = [invoked EXCEPT ![t] = @ + 1]
                  /\ pc' = [pc EXCEPT ![t] = "native"]
                  /\ UNCHANGED out
             ELSE /\ lock' = LockAfter(s, t, "release")
                  /\ out' = [out EXCEPT ![t] = Raise(fn.kind, PyNone, PyNone)]
                  /\ pc' = [pc EXCEPT ![t] = "release"]
                  /\ UNCHANGED <<h, ctorLog, invoked>>
    /\ op' = [op EXCEPT ![t] = o]
    /\ UNCHANGED <<lib, dll, flags, cookie, ms, phase, on, kept, calls, ctorArgs,
                   closeCount, lastNative, failure, expect>>

\* The native call returns and the method runs on to its next native call
\* or to the end of the with block.
NativeReturn(t) ==
    /\ pc[t] = "native"
    /\ LET s == on[t]
           o == op[t]
           fn == NativeFn(o)
           a == argtypes(dll[s], fn, NativeArg(o))
           answers ==
               IF h[t] # Handle THEN {NativeCallNull(ms[s], fn)}
               ELSE IF ms[s].state = "open"
               THEN {NativeCall(ms[s], fn, a, o.b, ok) : ok \in BOOLEAN}
               ELSE NativeAnswers(ms[s], fn, a, o.b)
       IN \E ans \in answers :
            LET raises == check_error(o, ans.ret)
                next == IF raises THEN "errmsg" ELSE "release"
            IN /\ ms' = [ms EXCEPT ![s] = ans.ms]
               /\ lastNative' = [lastNative EXCEPT ![s] = t]
               /\ flags' = [flags EXCEPT ![s] = set_flags_cache(o, ans, @)]
               /\ pc' = [pc EXCEPT ![t] = next]
               /\ lock' = LockAfter(s, t, next)
               /\ out' = [out EXCEPT ![t] = IF raises THEN NoOut ELSE Return(ReturnValue(o, ans))]
               /\ failure' = [failure EXCEPT ![t] =
                     IF ans.ret = Sentinel(fn)
                     THEN [msg |-> magic_error(ans.ms, h[t]).v, code |-> magic_errno(ans.ms, h[t]).v[1]]
                     ELSE NoErr]
               /\ expect' =
                     IF o.name = "set_flags"
                     THEN [expect EXCEPT ![s] =
                             [u \in Threads |-> IF u = t /\ ~raises THEN o.a ELSE PyNone]]
                     ELSE expect
    /\ UNCHANGED <<lib, dll, cookie, phase, on, op, h, kept, calls, ctorArgs, ctorLog,
                   closeCount, before, invoked>>

\* _check_error asks the library for the message, then for the code.
ErrMsg(t) ==
    /\ pc[t] = "errmsg"
    /\ LET s == on[t] IN
        /\ \E message \in IF cookie[s] = Handle /\ ms[s].state # "open"
                          THEN {PyNone, PyBytes(ms[s].err.msg), PyBytes(NullErr.msg)}
                          ELSE {magic_error(ms[s], cookie[s])} :
             out' = [out EXCEPT ![t] = Raise("", message, PyNone)]
        /\ lastNative' = [lastNative EXCEPT ![s] = t]
        /\ ctorLog' = Logged(s, "magic_error", cookie[s], PyNone)
        /\ lock' = LockAfter(s, t, "errno")
    /\ pc' = [pc EXCEPT ![t] = "errno"]
    /\ UNCHANGED <<lib, dll, flags, cookie, ms, phase, on, op, h, kept, calls, ctorArgs,
                   closeCount, failure, expect, before, invoked>>

ErrNo(t) ==
    /\ pc[t] = "errno"
    /\ LET s == on[t] IN
        /\ \E errno \in IF cookie[s] = Handle /\ ms[s].state # "open"
                        THEN {PyInt(ms[s].err.code), PyInt(NullErr.code)}
                        ELSE {magic_errno(ms[s], cookie[s])} :
             out' = [out EXCEPT ![t] = Raise("MagicException", out[t].val, errno)]
        /\ lastNative' = [lastNative EXCEPT ![s] = t]
        /\ ctorLog' = Logged(s, "magic_errno", cookie[s], PyNone)
        /\ lock' = LockAfter(s, t, "release")
    /\ pc' = [pc EXCEPT ![t] = "release"]
    /\ UNCHANGED <<lib, dll, flags, cookie, ms, phase, on, op, h, kept, calls, ctorArgs,
                   closeCount, failure, expect, before, invoked>>

\* The with block is left and the method returns or raises; the caller
\* keeps what from_file returned.  When the method is the load of
\* __init__, the object becomes live, or __init__ raises, nothing refers
\* to the object and its finaliser runs.
Release(t) ==
    /\ pc[t] = "release"
    /\ LET s == on[t] IN
        /\ lock' = LockAfter(s, t, "idle")
        /\ lastNative' = [lastNative EXCEPT ![s] = 0]
        /\ kept' = [kept EXCEPT ![t] =
              IF op[t].name = "from_file" /\ out[t].kind = "return"
              THEN [s |-> s, file |-> op[t].a, val |-> out[t].val]
              ELSE @]
        /\ IF phase[s] = "new" /\ out[t].kind # "return"
           THEN /\ phase' = [phase EXCEPT ![s] = "failed"]
                /\ pc' = [pc EXCEPT ![t] = "del"]
                /\ UNCHANGED <<on, op, out, ctorArgs, ctorLog>>
           ELSE /\ phase' = [phase EXCEPT ![s] = "live"]
                /\ pc' = [pc EXCEPT ![t] = "idle"]
                /\ on' = [on EXCEPT ![t] = 0]
                /\ op' = [op EXCEPT ![t] = NoOp]
                /\ out' = [out EXCEPT ![t] = NoOut]
                /\ ctorArgs' = [ctorArgs EXCEPT ![s] = NoArgs]
                /\ ctorLog' = [ctorLog EXCEPT ![s] = <<>>]
    /\ h' = [h EXCEPT ![t] = Unset]
    /\ failure' = [failure EXCEPT ![t] = NoErr]
    /\ before' = [before EXCEPT ![t] = PyNone]
    /\ invoked' = [invoked EXCEPT ![t] = 0]
    /\ UNCHANGED <<lib, dll, flags, cookie, ms, calls, closeCount, expect>>

\* The TypeError of from_buffer reaches the caller.
Unwind(t) ==
    /\ pc[t] = "unwind"
    /\ pc' = [pc EXCEPT ![t] = "idle"]
    /\ on' = [on EXCEPT ![t] = 0]
    /\ op' = [op EXCEPT ![t] = NoOp]
    /\ out' = [out EXCEPT ![t] = NoOut]
    /\ UNCHANGED <<lib, dll, flags, cookie, lock, ms, phase, h, kept, calls, ctorArgs,
                   ctorLog, closeCount, lastNative, failure, expect, before, invoked>>

\* No thread is in a method of the object and the last reference to it
\* goes: the interpreter calls __del__ in the thread that dropped it.
Collect(t, s) ==
    /\ phase[s] = "live"
    /\ pc[t] = "idle"
    /\ \A u \in Threads : on[u] # s
    /\ phase' = [phase EXCEPT ![s] = "dead"]
    /\ on' = [on EXCEPT ![t] = s]
    /\ pc' = [pc EXCEPT ![t] = "del"]
    /\ kept' = [kept EXCEPT ![t] = NoKept]
    /\ UNCHANGED <<lib, dll, flags, cookie, lock, ms, op, h, out, calls, ctorArgs,
                   ctorLog, closeCount, lastNative, failure, expect, before, invoked>>

\* The test of Magic.__del__: an attribute that is not set reads as None,
\* and None is false.
del_test_dll(d, c) == d # NoDll

del_test_not(d, c) == d # NoDll /\ c \in {Unset, Null}

del_test(d, c) == d # NoDll /\ c \notin {Unset, Null}

\* Magic.__del__: the test of self.dll and self.cookie,
DelCheck(t) ==
    /\ pc[t] = "del"
    /\ LET s == on[t]
           close == del_test(dll[s], cookie[s])
       IN /\ pc' = [pc EXCEPT ![t] = IF close THEN "del_call" ELSE "idle"]
          /\ on' = [on EXCEPT ![t] = IF close THEN s ELSE 0]
          /\ op' = [op EXCEPT ![t] = IF close THEN @ ELSE NoOp]
          /\ out' = [out EXCEPT ![t] = IF close THEN @ ELSE NoOut]
    /\ UNCHANGED <<lib, dll, flags, cookie, lock, ms, phase, h, kept, calls,
                   ctorArgs, ctorLog, closeCount, lastNative, failure, expect, before, invoked>>

\* the call of magic_close with self.cookie as it is now,
DelCall(t) ==
    /\ pc[t] = "del_call"
    /\ h' = [h EXCEPT ![t] = cookie[on[t]]]
    /\ pc' = [pc EXCEPT ![t] = "closing"]
    /\ UNCHANGED <<lib, dll, flags, cookie, lock, ms, phase, on, op, out, kept, calls,
                   ctorArgs, ctorLog, closeCount, lastNative, failure, expect, before, invoked>>

\* and its return, after which self.cookie is None.
DelReturn(t) ==
    /\ pc[t] = "closing"
    /\ LET s == on[t] IN
        /\ IF h[t] = Handle
           THEN /\ ms' = [ms EXCEPT ![s].state = "closed"]
                /\ closeCount' = [closeCount EXCEPT ![s] = @ + 1]
           ELSE UNCHANGED <<ms, closeCount>>
        /\ cookie' = [cookie EXCEPT ![s] = Null]
    /\ h' = [h EXCEPT ![t] = Unset]
    /\ pc' = [pc EXCEPT ![t] = "idle"]
    /\ on' = [on EXCEPT ![t] = 0]
    /\ op' = [op EXCEPT ![t] = NoOp]
    /\ out' = [out EXCEPT ![t] = NoOut]
    /\ UNCHANGED <<lib, dll, flags, lock, phase, kept, calls, ctorArgs, ctorLog,
                   lastNative, failure, expect, before, invoked>>

\* A thread calls the teardown itself, as the object's close.
ExplicitDel(t, s) ==
    /\ phase[s] = "live"
    /\ pc[t] = "idle"
    /\ calls < MaxCalls
    /\ calls' = calls + 1
    /\ on' = [on EXCEPT ![t] = s]
    /\ pc' = [pc EXCEPT ![t] = "del"]
    /\ kept' = [kept EXCEPT ![t] = NoKept]
    /\ UNCHANGED <<lib, dll, flags, cookie, lock, ms, phase, op, h, out, ctorArgs,
                   ctorLog, closeCount, lastNative, failure, expect, before, invoked>>

\* A thread constructs a further Magic object.
New(t, s, a) ==
    /\ pc[t] = "idle"
    /\ phase[s] = "none"
    /\ \A r \in Sessions : r < s => phase[r] # "none"
    /\ calls < MaxCalls
    /\ calls' = calls + 1
    /\ phase' = [phase EXCEPT ![s] = "new"]
    /\ ctorArgs' = [ctorArgs EXCEPT ![s] = a]
    /\ on' = [on EXCEPT ![t] = s]
    /\ pc' = [pc EXCEPT ![t] = "ctor"]
    /\ kept' = [kept EXCEPT ![t] = NoKept]
    /\ UNCHANGED <<lib, dll, flags, cookie, lock, ms, op, h, out, ctorLog,
                   closeCount, lastNative, failure, expect, before, invoked>>

Next ==
    \/ \E t \in Threads : CtorLoad(t)
    \/ \E t \in Threads : CtorOpen(t)
    \/ \E t \in Threads : \E s \in Sessions : Call(t, s)
    \/ \E t \in Threads : \E o \in OpCalls : Reject(t, o)
    \/ \E t \in Threads : \E o \in OpCalls : Enter(t, o)
    \/ \E t \in Threads : NativeReturn(t)
    \/ \E t \in Threads : ErrMsg(t)
    \/ \E t \in Threads : ErrNo(t)
    \/ \E t \in Threads : Release(t)
    \/ \E t \in Threads : Unwind(t)
    \/ \E t \in Threads : \E s \in Sessions : Collect(t, s)
    \/ \E t \in Threads : DelCheck(t)
    \/ \E t \in Threads : DelCall(t)
    \/ \E t \in Threads : DelReturn(t)

\* One Magic object as the interpreter runs it: __del__ runs once nothing
\* refers to the object.
Spec == Init /\ [][Next]_vars

\* The same on a machine with an old libmagic.
SpecOld == InitOld /\ [][Next]_vars

\* A thread that is inside a constructor, a method or the finaliser goes
\* on: native calls return, and a thread that asks for the lock gets it
\* if the lock is free again and again.  Nothing makes a thread call a
\* method, choose the refused from_buffer, or drop the object.
Step(t) ==
    \/ CtorLoad(t) \/ CtorOpen(t)
    \/ NativeReturn(t) \/ ErrMsg(t) \/ ErrNo(t) \/ Release(t) \/ Unwind(t)
    \/ DelCheck(t) \/ DelCall(t) \/ DelReturn(t)

Fairness ==
    \A t \in Threads :
        /\ WF_vars(Step(t))
        /\ SF_vars(\E o \in OpCalls : Enter(t, o))

FairSpec == Spec /\ Fairness

\* The object with __del__ also called by its users as close().
NextClose == Next \/ \E t \in Threads : \E s \in Sessions : ExplicitDel(t, s)

SpecClose == Init /\ [][NextClose]_vars

\* Several Magic objects in use at once.
NextMany == Next \/ \E t \in Threads : \E s \in Sessions : \E a \in CtorArgs : New(t, s, a)

\* The first object is Magic() on a machine with a full libmagic; what the
\* further objects are constructed with is chosen in New.
InitMany == Init /\ lib = "libmagic" /\ ctorArgs[1] = NoArgs

SpecMany == InitMany /\ [][NextMany]_vars

\* ---------------------------------------------------------- properties
InCritical(t) == pc[t] \in {"native", "errmsg", "errno", "release"}

\* C1: at most one thread is between the lock acquisition and the lock
\* release of a method of the session, that thread holds the lock, and no
\* two native calls on the cookie are in progress at once.
C1_CriticalSection ==
    \A s \in Sessions :
        /\ Cardinality({t \in Threads : on[t] = s /\ InCritical(t)}) <= 1
        /\ \A t \in Threads : (on[t] = s /\ InCritical(t)) => lock[s] = t
        /\ Cardinality({t \in Threads : on[t] = s /\ pc[t] \in {"native", "closing"}}) <= 1

C1_Witness ==
    \E t, u \in Threads :
        /\ t # u
        /\ phase[1] = "live"
        /\ on[t] = 1 /\ pc[t] = "native"
        /\ on[u] = 1 /\ pc[u] = "called"

\* C2: while a method asks for the message and the code of its failing
\* call it holds the lock and no other thread has made or is making a
\* native call on the cookie since; the MagicException it raises carries
\* the message and the code the library held right after that call.
C2_ErrorOfFailingCall ==
    \A t \in Threads :
        /\ pc[t] \in {"errmsg", "errno"} =>
              /\ lock[on[t]] = t
              /\ lastNative[on[t]] = t
              /\ \A u \in Threads \ {t} :
                    on[u] = on[t] => pc[u] \notin {"native", "closing"}
        /\ (pc[t] = "release" /\ out[t].kind = "raise" /\ invoked[t] > 0) =>
              /\ out[t].exc = "MagicException"
              /\ out[t].val.v = failure[t].msg
              /\ out[t].errno = PyInt(failure[t].code)

C2_Witness ==
    \E t, u \in Threads :
        /\ t # u
        /\ phase[1] = "live"
        /\ on[t] = 1 /\ pc[t] = "release"
        /\ out[t].kind = "raise"
        /\ out[t].val = PyBytes(FnErr(NativeFn(op[t])).msg)
        /\ out[t].errno = PyInt(FnErr(NativeFn(op[t])).code)
        /\ on[u] = 1 /\ pc[u] = "called"
        /\ ms[1].err # NoErr

\* C3: magic_close runs at most once on the cookie that magic_open
\* returned, however often and from however many threads the teardown
\* is called.
C3_CloseAtMostOnce == \A s \in Sessions : closeCount[s] <= 1

\* C4: once the session is closed (the cookie released and self.cookie
\* None), no method makes a native call with the null cookie.
C4_NoCallAfterClose ==
    \A t \in Threads :
        ~(pc[t] = "native" /\ h[t] = Null /\ ms[on[t]].state = "closed")

\* C5: magic_close is never in progress while another thread is inside
\* the critical section of a method of the same session.
C5_CloseUnderLock ==
    \A t, u \in Threads :
        ~(t # u /\ on[t] = on[u] /\ pc[t] = "closing" /\ InCritical(u))

\* C6: when magic_open returns a null cookie, __init__ makes no further
\* native call with it.
C6_NoCallOnNullOpen ==
    \A t \in Threads :
        ~(pc[t] = "native" /\ h[t] = Null /\ phase[on[t]] = "new")

C8_RejectedSetFlags ==
    \A t \in Threads :
        (pc[t] = "release" /\ op[t].name = "set_flags" /\ out[t].kind = "raise") =>
            /\ out[t].exc = "MagicException"
            /\ out[t].val.v = failure[t].msg
            /\ out[t].errno = PyInt(failure[t].code)
            /\ flags[on[t]] = before[t]

C8_Witness ==
    \E t \in Threads :
        /\ pc[t] = "release"
        /\ op[t].name = "set_flags"
        /\ out[t].kind = "raise"
        /\ out[t].errno = PyInt(FnErr("magic_setflags").code)
        /\ op[t].a # flags[on[t]]

\* C9: __init__ calls magic_open and then magic_load before any other
\* native call and before any other thread can use the session; without
\* a database name the load gets a null pointer, with a name it gets the
\* encoded bytes; when the load is rejected __init__ raises the load's
\* MagicException and the session never becomes live.
C9_OpenThenLoad ==
    \A s \in Sessions :
        /\ Len(ctorLog[s]) >= 1 => ctorLog[s][1].fn = "magic_open"
        /\ Len(ctorLog[s]) >= 2 =>
              /\ ctorLog[s][2].fn = "magic_load"
              /\ ctorLog[s][2].a.ty =
                    IF ctorArgs[s].database_filename = PyNone THEN "none" ELSE "bytes"
        /\ phase[s] = "new" =>
              /\ Cardinality({t \in Threads : on[t] = s}) = 1
              /\ \A t \in Threads :
                    on[t] = s =>
                        /\ pc[t] \in {"ctor", "open"} \/ op[t].name = "load"
                        /\ pc[t] = "release" =>
                              Len(ctorLog[s]) = IF out[t].kind = "return" THEN 2 ELSE 4
        /\ (s = 1 /\ phase[s] = "live" /\ calls = 0) =>
              (ms[s].state = "open" /\ ms[s].err = NoErr)
        /\ (phase[s] = "failed" /\ Len(ctorLog[s]) >= 2) =>
              /\ Len(ctorLog[s]) = 4
              /\ \A t \in Threads :
                    on[t] = s =>
                        /\ out[t].kind = "raise"
                        /\ out[t].exc = "MagicException"
                        /\ ms[s].state # "none" =>
                              out[t].val = PyBytes(FnErr("magic_load").msg)

C9_Witness ==
    /\ phase[1] = "failed"
    /\ Len(ctorLog[1]) = 4
    /\ ctorLog[1][2].a = PyBytes(<<>>)
    /\ ctorLog[1][2].h = Handle
    /\ on[1] = 1 /\ pc[1] = "closing"

\* C10: a from_file that returned holds the text the library produced for
\* the file that very call named, whatever native calls other threads
\* have made on the cookie since.
C10_OwnResult ==
    \A t \in Threads :
        /\ (pc[t] = "release" /\ op[t].name = "from_file" /\ out[t].kind = "return") =>
              Read(out[t].val, on[t]) = PyBytes(<<1>> \o coerce_filename(op[t].a).v)
        /\ kept[t] # NoKept =>
              Read(kept[t].val, kept[t].s) = PyBytes(<<1>> \o coerce_filename(kept[t].file).v)

C10_Witness ==
    \E t, u \in Threads :
        /\ t # u
        /\ kept[t] # NoKept
        /\ kept[u] # NoKept
        /\ kept[t].s = kept[u].s
        /\ kept[t].file # kept[u].file
        /\ ms[kept[t].s].buf # <<1>> \o coerce_filename(kept[t].file).v

\* C11: two sessions do not interfere.  Each has its own lock: a lock is
\* only ever held by a thread working on its own session, and a thread
\* about to enter a method of a session whose lock is free can enter,
\* whoever holds the lock of another session.  A step of a thread changes
\* the cookie, the cached flags, the lock and the native state of no
\* session but the one the thread works on.
C11_Isolation ==
    /\ [](\A s \in Sessions : lock[s] \in Threads => on[lock[s]] = s)
    /\ [](\A t \in Threads :
            (pc[t] = "called" /\ lock[on[t]] = 0) =>
                ENABLED (\E o \in OpCalls : Enter(t, o)))
    /\ [][\A s \in Sessions :
            (\A t \in Threads : pc'[t] # pc[t] => (on[t] # s /\ on'[t] # s)) =>
                /\ cookie'[s] = cookie[s]
                /\ flags'[s] = flags[s]
                /\ lock'[s] = lock[s]
                /\ ms'[s] = ms[s]
                /\ dll'[s] = dll[s]
                /\ closeCount'[s] = closeCount[s]]_vars

C11_Witness ==
    \E t, u \in Threads :
        /\ on[t] = 1 /\ on[u] = 2
        /\ phase[1] = "live" /\ phase[2] = "live"
        /\ pc[t] = "native" /\ lock[1] = t
        /\ pc[u] = "native" /\ lock[2] = u
        /\ op[t].name = "set_flags"
        /\ op[t].a # flags[2]

\* C12: from_buffer with an argument that is not bytes raises TypeError
\* before the lock is asked for and before any native call: the step that
\* refuses it leaves every session's state and the native sessions as they
\* were, and the refused call never holds the lock, never passes a cookie
\* to the library and ends with the TypeError.
C12_TypeErrorFirst ==
    /\ [](\A t \in Threads :
            (op[t].name = "from_buffer" /\ op[t].a.ty # "bytes") =>
                /\ pc[t] = "unwind"
                /\ out[t] = Raise("TypeError", PyNone, PyNone)
                /\ invoked[t] = 0
                /\ h[t] = Unset
                /\ lock[on[t]] # t)
    /\ [][\A t \in Threads :
            (op'[t].name = "from_buffer" /\ op'[t].a.ty # "bytes" /\ op'[t] # op[t]) =>
                UNCHANGED <<dll, flags, cookie, lock, ms, phase, closeCount,
                            lastNative, ctorLog, invoked>>]_vars

C12_Witness ==
    \E t, u \in Threads :
        /\ t # u
        /\ on[t] = on[u]
        /\ pc[t] = "unwind"
        /\ op[t] = Op("from_buffer", PyStr(<<37>>), PyNone)
        /\ pc[u] = "native"
        /\ lock[on[t]] = u

\* C13: a method whose native function answers its failure sentinel (null
\* for from_descriptor, from_file and from_buffer, -1 for set_flags,
\* check, compile, list, load, get_param and set_param) raises a
\* MagicException that carries the library's message and code, and a
\* method whose native function answers anything else returns; the
\* method calls its native function once, never again.
C13_FailureSurfaced ==
    \A t \in Threads :
        /\ invoked[t] <= 1
        /\ (pc[t] = "release" /\ invoked[t] = 1) =>
              /\ failure[t] # NoErr <=> out[t].kind = "raise"
              /\ failure[t] = NoErr <=> out[t].kind = "return"
              /\ out[t].kind = "raise" =>
                    /\ out[t].exc = "MagicException"
                    /\ out[t].val = PyBytes(failure[t].msg)
                    /\ out[t].errno = PyInt(failure[t].code)
        /\ pc[t] \in {"errmsg", "errno"} => failure[t] # NoErr

C13_Witness ==
    \E t \in Threads :
        /\ pc[t] = "release"
        /\ phase[on[t]] = "live"
        /\ op[t].name = "set_param"
        /\ out[t] = Raise("MagicException", PyBytes(FnErr("magic_setparam").msg),
                          PyInt(FnErr("magic_setparam").code))

\* The native functions that the methods of Magic ask of self.dll.
WrapperCalls ==
    {NativeFn(o) : o \in OpCalls}
        \cup {"magic_open", "magic_close", "magic_error", "magic_errno", "magic_version"}

\* C14: asking a MagicDLL for a name has three outcomes: AttributeError
\* for a name that the table lacks, NotImplementedError for a name of the
\* table that the loaded library does not export, and otherwise the
\* library's function with the restype and the argtypes of the table.
\* Every native function that Magic calls is in the table, so that a
\* method ends with NotImplementedError exactly when the library lacks
\* its function, and never with AttributeError.
C14_Resolution ==
    /\ \A library \in Libraries : \A item \in Items :
          LET fn == MagicDLL_getattr(library, item) IN
              /\ item \notin DOMAIN methods => fn.kind = "AttributeError"
              /\ (item \in DOMAIN methods /\ ~hasattr(library, item)) =>
                    fn.kind = "NotImplementedError"
              /\ (item \in DOMAIN methods /\ hasattr(library, item)) =>
                    /\ fn.kind = "callable"
                    /\ fn.restype = methods[item].restype
                    /\ fn.argtypes = methods[item].argtypes
    /\ WrapperCalls \subseteq DOMAIN methods
    /\ \A s \in Sessions : \A i \in 1..Len(ctorLog[s]) : ctorLog[s][i].fn \in DOMAIN methods
    /\ \A t \in Threads :
          /\ out[t].exc # "AttributeError"
          /\ pc[t] = "native" => hasattr(dll[on[t]], NativeFn(op[t]))
          /\ pc[t] = "release" =>
                (out[t].exc = "NotImplementedError" <=> ~hasattr(dll[on[t]], NativeFn(op[t])))

C14_Witness ==
    \E t \in Threads :
        /\ pc[t] = "release"
        /\ dll[on[t]] = "libmagic_old"
        /\ op[t].name = "get_param"
        /\ out[t] = Raise("NotImplementedError", PyNone, PyNone)
        /\ invoked[t] = 0
        /\ lock[on[t]] = t

\* C15: when libmagic cannot be located or cannot be loaded, MagicDLL()
\* raises: self.dll is never assigned, the constructor never gets to
\* magic_open, and no session becomes live.
C15_LibraryNotFound ==
    lib \in {"absent", "broken"} =>
        /\ \A s \in Sessions : dll[s] = NoDll /\ cookie[s] = Unset /\ phase[s] # "live"
        /\ \A t \in Threads : pc[t] # "open" /\ out[t].exc # "NotImplementedError"

\* C16: a cookie that magic_open returned is released once the object's
\* teardown runs, whether the object was live or its constructor raised
\* out of the first load: the finaliser calls magic_close on the cookie,
\* once, and when the finaliser has ended no session is left open.
C16_CookieReleased ==
    \A s \in Sessions :
        /\ [](closeCount[s] <= 1)
        /\ []((phase[s] \in {"failed", "dead"} /\ \A t \in Threads : on[t] # s) =>
                (ms[s].state # "open" /\ closeCount[s] = IF ms[s].state = "closed" THEN 1 ELSE 0))
        /\ (phase[s] \in {"failed", "dead"} /\ cookie[s] = Handle) ~>
              (cookie[s] = Null /\ ms[s].state = "closed" /\ closeCount[s] = 1)

C16_Witness ==
    /\ phase[1] = "failed"
    /\ Len(ctorLog[1]) = 4
    /\ ctorLog[1][2].fn = "magic_load"
    /\ ctorLog[1][2].h = Handle
    /\ cookie[1] = Null
    /\ ms[1].state = "closed"
    /\ closeCount[1] = 1

\* C17: the lock is released on every way out of a method, by return or
\* by exception: it is held only by a thread inside a with block of that
\* session, a thread that is not inside one holds no lock and so never
\* asks for a lock it holds, no step of a method changes the cookie, and
\* a thread that asks for the lock gets it.
C17_LockReleased ==
    /\ [](\A s \in Sessions :
            lock[s] \in Threads => (on[lock[s]] = s /\ InCritical(lock[s])))
    /\ [](\A t \in Threads : \A s \in Sessions : lock[s] = t => pc[t] # "called")
    /\ [][\A t \in Threads :
            (InCritical(t) /\ pc'[t] # pc[t]) =>
                /\ cookie' = cookie
                /\ ~InCritical(t)' => lock'[on[t]] = 0]_vars
    /\ \A t \in Threads : \A s \in Sessions :
          (pc[t] = "called" /\ on[t] = s) ~> (lock[s] = t \/ pc[t] = "unwind")

C17_Witness ==
    \E t, u \in Threads :
        /\ t # u
        /\ pc[t] = "release"
        /\ out[t].kind = "raise"
        /\ lock[on[t]] = t
        /\ on[u] = on[t]
        /\ pc[u] = "called"

\* C18: while a session is live and no thread holds its lock, self.flags
\* is the flags that the library holds for the cookie.
C18_FlagsMirror ==
    \A s \in Sessions :
        (phase[s] = "live" /\ lock[s] = 0 /\ cookie[s] = Handle) =>
            flags[s] = PyInt(ms[s].flags)

\* C19: the finaliser of an object whose constructor raised before it
\* stored a cookie (the library did not load, or magic_open could not be
\* resolved or called), or stored the null cookie, does not call
\* magic_close: it passes no cookie to the library, no native session
\* exists for the object or changes, and the thread leaves __del__ with
\* nothing but the constructor's exception.
C19_PartialTeardown ==
    \A s \in Sessions :
        (phase[s] = "failed" /\ cookie[s] \in {Unset, Null} /\ closeCount[s] = 0) =>
            /\ ms[s] = NoSession
            /\ \A t \in Threads :
                  on[t] = s =>
                      /\ pc[t] \in {"del", "release"}
                      /\ h[t] # Handle
                      /\ pc[t] = "del" => out[t].kind = "raise"

C19_Witness ==
    /\ phase[1] = "failed"
    /\ dll[1] # NoDll
    /\ cookie[1] = Unset
    /\ flags[1] \in FlagArgs
    /\ closeCount[1] = 0
    /\ \A t \in Threads : on[t] # 1

====
